---- MODULE Spec2Model ----
(***************************************************************************)
(* Model of the malaney/ecs template scripts.                              *)
(*                                                                         *)
(* Each script is a straight-line sequence of module-level statements that *)
(* build declarations and attach them to one shared template object; the   *)
(* finished template is serialized and printed, and the printed document   *)
(* is then deployed as a CloudFormation stack: parameter values are bound, *)
(* conditions are evaluated, and resources are created in an order that    *)
(* respects the references between them.                                   *)
(*                                                                         *)
(* Property values are expression trees.  Every node is a record with an   *)
(* "op" field: Str (a literal, as a sequence of characters), Text (a       *)
(* literal kept as one opaque token), Num, Bool, Ref, GetAtt, Join,        *)
(* FindInMap, Base64, List and Obj.                                        *)
(***************************************************************************)
EXTENDS Integers, Sequences, FiniteSets, TLC

VARIABLES script, pc, template, stdout, deployment, created

vars == <<script, pc, template, stdout, deployment, created>>

----------------------------------------------------------------------------
(* Bounds of the model *)

\* longest WebAppRevision value supplied to a deployment
MaxRevLen == 1
\* largest DesiredScale / MaxScale value supplied besides the defaults
MaxSuppliedScale == 1
\* number of mapped regions a stack is created in (besides an unmapped one)
MaxDeployRegions == 2

----------------------------------------------------------------------------
(* Expression constructors (the troposphere helper objects) *)

Str(cs) == [op |-> "Str", chars |-> cs]
Text(s) == [op |-> "Text", s |-> s]
Num(n) == [op |-> "Num", n |-> n]
Bool(b) == [op |-> "Bool", b |-> b]
Ref(obj) == [op |-> "Ref", name |-> obj.title]
RefName(n) == [op |-> "Ref", name |-> n]
GetAtt(obj, attr) == [op |-> "GetAtt", name |-> obj.title, attr |-> attr]
Join(delim, parts) == [op |-> "Join", delim |-> delim, items |-> parts]
FindInMap(map, key, second) ==
    [op |-> "FindInMap", map |-> map, key |-> key, second |-> second]
Base64(e) == [op |-> "Base64", arg |-> e]
List(xs) == [op |-> "List", items |-> xs]
Obj(fields) == [op |-> "Obj", f |-> fields]

Parameter(title, type, default) ==
    [title |-> title, Type |-> type, Default |-> default]
Output(title, value) == [title |-> title, Condition |-> {}, Value |-> value]
Resource(title, type, conds, dependsOn, props) ==
    [title |-> title, Type |-> type, Condition |-> conds,
     DependsOn |-> dependsOn, Properties |-> Obj(props)]

\* a parameter's Default: a set holding the default's characters, or empty
NoDefault == {}
Default(cs) == {cs}

AWS_ACCOUNT_ID == [title |-> "AWS::AccountId"]
AWS_REGION == [title |-> "AWS::Region"]
AWS_STACK_ID == [title |-> "AWS::StackId"]
AWS_STACK_NAME == [title |-> "AWS::StackName"]
PseudoParameters ==
    {AWS_ACCOUNT_ID.title, AWS_REGION.title, AWS_STACK_ID.title,
     AWS_STACK_NAME.title}

----------------------------------------------------------------------------
(* Objects imported from the sibling modules vpc, assets, certificates,    *)
(* repository, domain and database                                         *)

vpc == [title |-> "Vpc"]
loadbalancer_a_subnet == [title |-> "LoadbalancerASubnet"]
loadbalancer_b_subnet == [title |-> "LoadbalancerBSubnet"]
container_a_subnet == [title |-> "ContainerASubnet"]
container_b_subnet == [title |-> "ContainerBSubnet"]
loadbalancer_a_subnet_cidr == Text("loadbalancer_a_subnet_cidr")
loadbalancer_b_subnet_cidr == Text("loadbalancer_b_subnet_cidr")
assets_bucket == [title |-> "AssetsBucket"]
distribution == [title |-> "Distribution"]
application_certificate == Text("application_certificate")
repository == [title |-> "Repository"]
domain_name == Text("domain_name")
db_instance == [title |-> "DbInstance"]
db_name == [title |-> "DatabaseName"]
db_user == [title |-> "DatabaseUser"]
db_password == [title |-> "DatabasePassword"]

ImportedResource(obj) == Resource(obj.title, "Imported", {}, {}, <<>>)

----------------------------------------------------------------------------
(* cluster.py: parameters and mapping *)

container_instance_type_param ==
    Parameter("ContainerInstanceType", "String",
              Default(<<"t","2",".","m","i","c","r","o">>))
container_instance_type == Ref(container_instance_type_param)

web_worker_port_param ==
    Parameter("WebWorkerPort", "Number", Default(<<"8","0","0","0">>))
\* a variant that hard-codes the default instead of naming the parameter
web_worker_port_literal == Num(8000)

web_worker_port == Ref(web_worker_port_param)

max_container_instances_param ==
    Parameter("MaxScale", "Number", Default(<<"3">>))
max_container_instances == Ref(max_container_instances_param)

desired_container_instances_param ==
    Parameter("DesiredScale", "Number", Default(<<"3">>))
desired_container_instances == Ref(desired_container_instances_param)

\* region names, as character sequences
UsEast1 ==
    <<"u", "s", "-", "e", "a", "s", "t", "-", "1">>
UsEast2 ==
    <<"u", "s", "-", "e", "a", "s", "t", "-", "2">>
UsWest1 ==
    <<"u", "s", "-", "w", "e", "s", "t", "-", "1">>
UsWest2 ==
    <<"u", "s", "-", "w", "e", "s", "t", "-", "2">>
EuWest1 ==
    <<"e", "u", "-", "w", "e", "s", "t", "-", "1">>
EuCentral1 ==
    <<"e", "u", "-", "c", "e", "n", "t", "r", "a", "l", "-", "1">>
ApNortheast1 ==
    <<"a", "p", "-", "n", "o", "r", "t", "h", "e", "a", "s", "t", "-", "1">>
ApSoutheast1 ==
    <<"a", "p", "-", "s", "o", "u", "t", "h", "e", "a", "s", "t", "-", "1">>
ApSoutheast2 ==
    <<"a", "p", "-", "s", "o", "u", "t", "h", "e", "a", "s", "t", "-", "2">>

ECSRegionMap ==
    [r \in {UsEast1, UsEast2, UsWest1, UsWest2, EuWest1, EuCentral1,
            ApNortheast1, ApSoutheast1, ApSoutheast2} |->
        [AMI |-> CASE r = UsEast1 -> "ami-eca289fb"
                   [] r = UsEast2 -> "ami-446f3521"
                   [] r = UsWest1 -> "ami-9fadf8ff"
                   [] r = UsWest2 -> "ami-7abc111a"
                   [] r = EuWest1 -> "ami-a1491ad2"
                   [] r = EuCentral1 -> "ami-54f5303b"
                   [] r = ApNortheast1 -> "ami-9cd57ffd"
                   [] r = ApSoutheast1 -> "ami-a900a3ca"
                   [] r = ApSoutheast2 -> "ami-5781be34"]]

----------------------------------------------------------------------------
(* cluster.py: resources and output *)

application_target_group ==
    Resource("ApplicationTargetGroup",
             "AWS::ElasticLoadBalancingV2::TargetGroup", {}, {},
        [VpcId |-> Ref(vpc),
         Matcher |-> Obj([HttpCode |-> Text("200-299")]),
         Port |-> Num(80),
         Protocol |-> Text("HTTP"),
         HealthCheckIntervalSeconds |-> Num(15),
         HealthCheckPath |-> Text("/health-check"),
         HealthCheckProtocol |-> Text("HTTP"),
         HealthCheckTimeoutSeconds |-> Num(5),
         HealthyThresholdCount |-> Num(2),
         UnhealthyThresholdCount |-> Num(8),
         TargetGroupAttributes |-> List(<<
             Obj([Key |-> Text("stickiness.enabled"),
                  Value |-> Text("true")])>>)])

load_balancer_security_group ==
    Resource("LoadBalancerSecurityGroup", "AWS::EC2::SecurityGroup", {}, {},
        [GroupDescription |-> Text("Web load balancer security group."),
         VpcId |-> Ref(vpc),
         SecurityGroupIngress |-> List(<<
             Obj([IpProtocol |-> Text("tcp"),
                  FromPort |-> Text("443"),
                  ToPort |-> Text("443"),
                  CidrIp |-> Text("0.0.0.0/0")])>>)])

application_load_balancer ==
    Resource("ApplicationLoadBalancer",
             "AWS::ElasticLoadBalancingV2::LoadBalancer", {}, {},
        [Subnets |-> List(<<Ref(loadbalancer_a_subnet),
                            Ref(loadbalancer_b_subnet)>>),
         SecurityGroups |-> List(<<Ref(load_balancer_security_group)>>)])

load_balancer_dns_name_output ==
    Output("LoadBalancerDNSName", GetAtt(application_load_balancer, "DNSName"))

application_listener ==
    Resource("ApplicationListener",
             "AWS::ElasticLoadBalancingV2::Listener", {}, {},
        [Certificates |-> List(<<
             Obj([CertificateArn |-> application_certificate])>>),
         LoadBalancerArn |-> Ref(application_load_balancer),
         Protocol |-> Text("HTTPS"),
         Port |-> Num(443),
         DefaultActions |-> List(<<
             Obj([TargetGroupArn |-> Ref(application_target_group),
                  Type |-> Text("forward")])>>)])

cluster == Resource("Cluster", "AWS::ECS::Cluster", {}, {}, <<>>)

AssumeRolePolicyDocument(service) ==
    Obj([Statement |-> List(<<
        Obj([Effect |-> Text("Allow"),
             Principal |-> Obj([Service |-> List(<<Text(service)>>)]),
             Action |-> List(<<Text("sts:AssumeRole")>>)])>>)])

Policy(name, statements) ==
    Obj([PolicyName |-> Text(name),
         PolicyDocument |-> Obj([Statement |-> List(statements)])])

Statement(actions, resource) ==
    Obj([Effect |-> Text("Allow"), Action |-> List(actions),
         Resource |-> resource])

container_instance_role ==
    Resource("ContainerInstanceRole", "AWS::IAM::Role", {}, {},
        [AssumeRolePolicyDocument |->
             AssumeRolePolicyDocument("ec2.amazonaws.com"),
         Path |-> Text("/"),
         Policies |-> List(<<
             Policy("AssetsManagementPolicy", <<
                 Statement(<<Text("s3:ListBucket")>>,
                     Join(<<>>, <<Text("arn:aws:s3:::"), Ref(assets_bucket)>>)),
                 Statement(<<Text("s3:*")>>,
                     Join(<<>>, <<Text("arn:aws:s3:::"), Ref(assets_bucket),
                                Text("/*")>>))>>),
             Policy("ECSManagementPolicy", <<
                 Statement(<<Text("ecs:*"), Text("elasticloadbalancing:*")>>,
                     Text("*"))>>),
             Policy("ECRManagementPolicy", <<
                 Statement(<<Text("ecr:GetAuthorizationToken"),
                             Text("ecr:GetDownloadUrlForLayer"),
                             Text("ecr:BatchGetImage"),
                             Text("ecr:BatchCheckLayerAvailability")>>,
                     Text("*"))>>),
             Policy("LoggingPolicy", <<
                 Statement(<<Text("logs:Create*"), Text("logs:PutLogEvents")>>,
                     Text("arn:aws:logs:*:*:*"))>>)>>)])

container_instance_profile ==
    Resource("ContainerInstanceProfile", "AWS::IAM::InstanceProfile", {}, {},
        [Path |-> Text("/"),
         Roles |-> List(<<Ref(container_instance_role)>>)])

container_security_group ==
    Resource("ContainerSecurityGroup", "AWS::EC2::SecurityGroup", {}, {},
        [GroupDescription |-> Text("Container security group."),
         VpcId |-> Ref(vpc),
         SecurityGroupIngress |-> List(<<
             Obj([IpProtocol |-> Text("tcp"),
                  FromPort |-> web_worker_port,
                  ToPort |-> web_worker_port,
                  CidrIp |-> loadbalancer_a_subnet_cidr]),
             Obj([IpProtocol |-> Text("tcp"),
                  FromPort |-> web_worker_port,
                  ToPort |-> web_worker_port,
                  CidrIp |-> loadbalancer_b_subnet_cidr])>>)])

container_instance_configuration_name == "ContainerLaunchConfiguration"

autoscaling_group_name == "AutoScalingGroup"

\* a variant that looks the image up under one fixed region
image_id_fixed_region == FindInMap("ECSRegionMap", Str(UsEast1), "AMI")

image_id == FindInMap("ECSRegionMap", Ref(AWS_REGION), "AMI")

container_instance_configuration ==
    Resource(container_instance_configuration_name,
             "AWS::AutoScaling::LaunchConfiguration", {}, {},
        [Metadata |-> Obj([
             register_cluster |-> Join(<<>>, <<
                 Text("#!/bin/bash\n"),
                 Text("echo ECS_CLUSTER="),
                 Ref(cluster),
                 Text(" >> /etc/ecs/ecs.config\n"),
                 Text("echo 'ECS_AVAILABLE_LOGGING_DRIVERS="),
                 Text("[\"json-file\",\"awslogs\"]'"),
                 Text(" >> /etc/ecs/ecs.config\n")>>),
             cfn_hup_conf |-> Join(<<>>, <<
                 Text("[main]\n"), Text("stack="), Ref(AWS_STACK_ID),
                 Text("\n"), Text("region="), Ref(AWS_REGION), Text("\n")>>),
             cfn_auto_reloader_conf |-> Join(<<>>, <<
                 Text("[cfn-auto-reloader-hook]\n"),
                 Text("triggers=post.update\n"),
                 Text("path=Resources.ContainerLaunchConfiguration."),
                 Text("Metadata.AWS::CloudFormation::Init\n"),
                 Text("action=/opt/aws/bin/cfn-init -v "),
                 Text("         --stack "),
                 Ref(AWS_STACK_NAME),
                 Text("         --resource ContainerLaunchConfiguration"),
                 Text("         --region "),
                 RefName("AWS::Region"),
                 Text("\n"),
                 Text("runas=root\n")>>)]),
         SecurityGroups |-> List(<<Ref(container_security_group)>>),
         InstanceType |-> container_instance_type,
         ImageId |-> image_id,
         IamInstanceProfile |-> Ref(container_instance_profile),
         UserData |-> Base64(Join(<<>>, <<
             Text("#!/bin/bash -xe\n"),
             Text("yum install -y aws-cfn-bootstrap\n"),
             Text("/opt/aws/bin/cfn-init -v "),
             Text("         --stack "), Ref(AWS_STACK_NAME),
             Text("         --resource ContainerLaunchConfiguration "),
             Text("         --region "), Ref(AWS_REGION), Text("\n"),
             Text("/opt/aws/bin/cfn-signal -e $? "),
             Text("         --stack "), Ref(AWS_STACK_NAME),
             Text("         --resource ContainerLaunchConfiguration "),
             Text("         --region "), Ref(AWS_REGION), Text("\n")>>))])

autoscaling_group ==
    Resource(autoscaling_group_name, "AWS::AutoScaling::AutoScalingGroup",
             {}, {},
        [VPCZoneIdentifier |-> List(<<Ref(container_a_subnet),
                                      Ref(container_b_subnet)>>),
         MinSize |-> desired_container_instances,
         MaxSize |-> max_container_instances,
         DesiredCapacity |-> desired_container_instances,
         LaunchConfigurationName |-> Ref(container_instance_configuration),
         HealthCheckType |-> Text("EC2"),
         HealthCheckGracePeriod |-> Num(300)])

app_service_role ==
    Resource("AppServiceRole", "AWS::IAM::Role", {}, {},
        [AssumeRolePolicyDocument |->
             AssumeRolePolicyDocument("ecs.amazonaws.com"),
         Path |-> Text("/"),
         Policies |-> List(<<
             Policy("WebServicePolicy", <<
                 Statement(<<Text("elasticloadbalancing:Describe*"),
                     Text("elasticloadbalancing:DeregisterInstancesFromLoadBalancer"),
                     Text("elasticloadbalancing:RegisterInstancesWithLoadBalancer"),
                     Text("ec2:Describe*"),
                     Text("ec2:AuthorizeSecurityGroupIngress")>>,
                     Text("*"))>>)>>)])

----------------------------------------------------------------------------
(* services/application.py: parameters, condition, image *)

application_revision_param ==
    Parameter("WebAppRevision", "String", Default(<<>>))
application_revision == Ref(application_revision_param)

secret_key_param == Parameter("SecretKey", "String", NoDefault)
secret_key == Ref(secret_key_param)

web_worker_cpu_param ==
    Parameter("WebWorkerCPU", "Number", Default(<<"2","5","6">>))
web_worker_cpu == Ref(web_worker_cpu_param)

web_worker_memory_param ==
    Parameter("WebWorkerMemory", "Number", Default(<<"5","0","0">>))
web_worker_memory == Ref(web_worker_memory_param)

web_worker_desired_count_param ==
    Parameter("WebWorkerDesiredCount", "Number", Default(<<"3">>))
web_worker_desired_count == Ref(web_worker_desired_count_param)

deploy_condition == "Deploy"

\* a variant that tests for the empty revision instead of its presence
deploy_condition_expr_without_not ==
    [op |-> "Equals", left |-> application_revision, right |-> Str(<<>>)]

\* Not(Equals(application_revision, ""))
deploy_condition_expr ==
    [op |-> "Not",
     arg |-> [op |-> "Equals", left |-> application_revision,
              right |-> Str(<<>>)]]

DkrEcr == <<".", "d", "k", "r", ".", "e", "c", "r", ".">>
AmazonawsCom ==
    <<".", "a", "m", "a", "z", "o", "n", "a", "w", "s", ".", "c", "o", "m",
      "/">>
\* a variant with the path separator where the tag separator belongs
Slash == <<"/">>
Colon == <<":">>

image ==
    Join(<<>>, <<Ref(AWS_ACCOUNT_ID), Str(DkrEcr), Ref(AWS_REGION),
               Str(AmazonawsCom), Ref(repository), Str(Colon),
               application_revision>>)

----------------------------------------------------------------------------
(* services/application.py: resources and output *)

web_log_group ==
    Resource("WebLogs", "AWS::Logs::LogGroup", {}, {},
        [RetentionInDays |-> Num(365)])

web_logs_group_output == Output("WebLogsGroup", GetAtt(web_log_group, "Arn"))

log_configuration ==
    Obj([LogDriver |-> Text("awslogs"),
         Options |-> Obj([awslogs_group |-> Ref(web_log_group),
                          awslogs_region |-> Ref(AWS_REGION)])])

Environment(name, value) == Obj([Name |-> Text(name), Value |-> value])

web_task_definition ==
    Resource("WebTask", "AWS::ECS::TaskDefinition", {deploy_condition}, {},
        [ContainerDefinitions |-> List(<<
            Obj([Name |-> Text("WebWorker"),
                 Cpu |-> web_worker_cpu,
                 Memory |-> web_worker_memory,
                 Essential |-> Bool(TRUE),
                 Image |-> Join(<<>>, <<
                     Ref(AWS_ACCOUNT_ID),
                     Str(DkrEcr),
                     Ref(AWS_REGION),
                     Str(AmazonawsCom),
                     Ref(repository),
                     Str(Colon),
                     application_revision>>),
                 PortMappings |-> List(<<
                     Obj([HostPort |-> Num(0),
                          ContainerPort |-> web_worker_port])>>),
                 LogConfiguration |-> Obj([
                     LogDriver |-> Text("awslogs"),
                     Options |-> Obj([
                         awslogs_group |-> Ref(web_log_group),
                         awslogs_region |-> Ref(AWS_REGION)])]),
                 Environment |-> List(<<
                     Environment("AWS_STORAGE_BUCKET_NAME",
                                 Ref(assets_bucket)),
                     Environment("CDN_DOMAIN_NAME",
                                 GetAtt(distribution, "DomainName")),
                     Environment("DOMAIN_NAME", domain_name),
                     Environment("PORT", web_worker_port),
                     Environment("SECRET_KEY", secret_key),
                     Environment("DATABASE_URL", Join(<<>>, <<
                         Text("postgres://"),
                         Ref(db_user),
                         Text(":"),
                         Ref(db_password),
                         Text("@"),
                         GetAtt(db_instance, "Endpoint.Address"),
                         Text("/"),
                         Ref(db_name)>>))>>)])>>)])

application_service_role ==
    Resource("ApplicationServiceRole", "AWS::IAM::Role", {}, {},
        [AssumeRolePolicyDocument |->
             AssumeRolePolicyDocument("ecs.amazonaws.com"),
         Path |-> Text("/"),
         Policies |-> List(<<
             Policy("WebServicePolicy", <<
                 Statement(<<Text("elasticloadbalancing:Describe*"),
                     Text("elasticloadbalancing:RegisterTargets"),
                     Text("elasticloadbalancing:DeregisterTargets"),
                     Text("elasticloadbalancing:DeregisterInstancesFromLoadBalancer"),
                     Text("elasticloadbalancing:RegisterInstancesWithLoadBalancer"),
                     Text("ec2:Describe*"),
                     Text("ec2:AuthorizeSecurityGroupIngress")>>,
                     Text("*"))>>)>>)])

application_service_properties ==
    [Cluster |-> Ref(cluster),
     DeploymentConfiguration |-> Obj([
         MaximumPercent |-> Num(135),
         MinimumHealthyPercent |-> Num(30)]),
     DesiredCount |-> web_worker_desired_count,
     LoadBalancers |-> List(<<
         Obj([ContainerName |-> Text("WebWorker"),
              ContainerPort |-> web_worker_port,
              TargetGroupArn |-> Ref(application_target_group)])>>),
     TaskDefinition |-> Ref(web_task_definition),
     Role |-> Ref(application_service_role)]

\* a variant that is created whether or not a revision is deployed
application_service_unconditional ==
    Resource("ApplicationService", "AWS::ECS::Service", {},
             {autoscaling_group_name, application_listener.title},
             application_service_properties)

\* a variant that does not wait for the instances and the listener
application_service_without_depends_on ==
    Resource("ApplicationService", "AWS::ECS::Service", {deploy_condition},
             {}, application_service_properties)

application_service ==
    Resource("ApplicationService", "AWS::ECS::Service", {deploy_condition},
             {autoscaling_group_name, application_listener.title},
             application_service_properties)

----------------------------------------------------------------------------
(* mystack/ecs_taskdefinition.py *)

mystack_app_revision == <<"l", "a", "t", "e", "s", "t">>
mystack_repository == "nick"

mystack_web_task_definition ==
    Resource("WebTask", "AWS::ECS::TaskDefinition", {"foo"}, {},
        [ContainerDefinitions |-> List(<<
            Obj([Name |-> Text("WebWorker"),
                 Cpu |-> Num(8),
                 Memory |-> Num(2048),
                 Essential |-> Bool(TRUE),
                 Image |-> Join(<<>>, <<
                     Ref(AWS_ACCOUNT_ID),
                     Str(DkrEcr),
                     Ref(AWS_REGION),
                     Str(AmazonawsCom),
                     RefName(mystack_repository),
                     Str(Colon),
                     Str(mystack_app_revision)>>),
                 PortMappings |-> List(<<
                     Obj([ContainerPort |-> Num(10),
                          HostPort |-> Num(8000)])>>),
                 Environment |-> List(<<
                     Environment("AWS_STORAGE_BUCKET_NAME", Text("blah")),
                     Environment("CDN_DOMAIN_NAME",
                                 Text("DomainName"))>>)])>>)])

----------------------------------------------------------------------------
(* The template accumulator *)

Template ==
    [parameters |-> <<>>, conditions |-> <<>>, mappings |-> <<>>,
     resources |-> <<>>, outputs |-> <<>>]

add_parameter(t, p) == [t EXCEPT !.parameters = Append(@, p)]
add_condition(t, name, expr) ==
    [t EXCEPT !.conditions = Append(@, [title |-> name, expr |-> expr])]
add_mapping(t, name, map) ==
    [t EXCEPT !.mappings = Append(@, [title |-> name, map |-> map])]
add_resource(t, r) == [t EXCEPT !.resources = Append(@, r)]
add_output(t, o) == [t EXCEPT !.outputs = Append(@, o)]

Titles(seq) == {seq[i].title : i \in DOMAIN seq}
Lookup(seq, title) == seq[CHOOSE i \in DOMAIN seq : seq[i].title = title]

\* the serialized document: every section keyed by title
to_yaml(t) ==
    [Parameters |-> [n \in Titles(t.parameters) |-> Lookup(t.parameters, n)],
     Conditions |-> [n \in Titles(t.conditions) |-> Lookup(t.conditions, n).expr],
     Mappings |-> [n \in Titles(t.mappings) |-> Lookup(t.mappings, n).map],
     Resources |-> [n \in Titles(t.resources) |-> Lookup(t.resources, n)],
     Outputs |-> [n \in Titles(t.outputs) |-> Lookup(t.outputs, n)]]

----------------------------------------------------------------------------
(* Names an expression uses *)

RECURSIVE Refs(_)
Refs(e) ==
    CASE e.op \in {"Ref", "GetAtt"} -> {e.name}
      [] e.op \in {"Join", "List"} ->
            UNION {Refs(e.items[i]) : i \in DOMAIN e.items}
      [] e.op = "Obj" -> UNION {Refs(e.f[k]) : k \in DOMAIN e.f}
      [] e.op = "FindInMap" -> Refs(e.key)
      [] e.op \in {"Base64", "Not"} -> Refs(e.arg)
      [] e.op = "Equals" -> Refs(e.left) \cup Refs(e.right)
      [] OTHER -> {}

RECURSIVE FindInMaps(_)
FindInMaps(e) ==
    CASE e.op \in {"Join", "List"} ->
            UNION {FindInMaps(e.items[i]) : i \in DOMAIN e.items}
      [] e.op = "Obj" -> UNION {FindInMaps(e.f[k]) : k \in DOMAIN e.f}
      [] e.op = "FindInMap" -> {e} \cup FindInMaps(e.key)
      [] e.op \in {"Base64", "Not"} -> FindInMaps(e.arg)
      [] e.op = "Equals" -> FindInMaps(e.left) \cup FindInMaps(e.right)
      [] OTHER -> {}

\* names a resource's creation waits for: its Ref and GetAtt targets and
\* its DependsOn entries
Uses(r) == Refs(r.Properties) \cup r.DependsOn

\* names that need no declaration in a document: the pseudo-parameters
Declared(doc) ==
    DOMAIN doc.Parameters \cup DOMAIN doc.Resources \cup PseudoParameters

\* every name the document uses is declared in the document
ValidResource(doc, r) ==
    /\ Refs(r.Properties) \subseteq Declared(doc)
    /\ r.Condition \subseteq DOMAIN doc.Conditions
    /\ r.DependsOn \subseteq DOMAIN doc.Resources
    /\ \A m \in FindInMaps(r.Properties) : m.map \in DOMAIN doc.Mappings

ValidDocument(doc) ==
    /\ \A n \in DOMAIN doc.Resources : ValidResource(doc, doc.Resources[n])
    /\ \A n \in DOMAIN doc.Outputs :
          Refs(doc.Outputs[n].Value) \subseteq Declared(doc)
    /\ \A n \in DOMAIN doc.Conditions :
          Refs(doc.Conditions[n]) \subseteq
              DOMAIN doc.Parameters \cup PseudoParameters

----------------------------------------------------------------------------
(* The two script runs.  pc names the next module-level statement. *)

Scripts == {"mystack", "stack"}

NoDeployment ==
    [status |-> "NONE", parameters |-> <<>>, region |-> <<>>,
     accountId |-> <<>>, repositoryName |-> <<>>, conditions |-> <<>>,
     graph |-> <<>>, unresolvable |-> {}, outputs |-> {}]

Init ==
    /\ script \in Scripts
    /\ pc = IF script = "mystack" THEN "template" ELSE "import_cluster_siblings"
    /\ template = Template
    /\ stdout = <<>>
    /\ deployment = NoDeployment
    /\ created = {}

\* one statement of a script: control moves from one label to the next
Step(s, from, to) ==
    /\ script = s
    /\ pc = from
    /\ pc' = to
    /\ UNCHANGED <<script, deployment, created>>

\* the sibling modules cluster.py imports run first and attach their objects
ImportedByCluster ==
    <<vpc, loadbalancer_a_subnet, loadbalancer_b_subnet, container_a_subnet,
      container_b_subnet, assets_bucket, distribution>>

\* the sibling modules only application.py imports
ImportedByApplication == <<repository, db_instance>>
ImportedParameters == <<db_name, db_user, db_password>>

ImportClusterSiblings ==
    /\ Step("stack", "import_cluster_siblings", "container_instance_type")
    /\ template' = [template EXCEPT !.resources =
           @ \o [i \in DOMAIN ImportedByCluster |->
                    ImportedResource(ImportedByCluster[i])]]
    /\ UNCHANGED stdout

AddContainerInstanceType ==
    /\ Step("stack", "container_instance_type", "web_worker_port")
    /\ template' = add_parameter(template, container_instance_type_param)
    /\ UNCHANGED stdout

AddWebWorkerPort ==
    /\ Step("stack", "web_worker_port", "max_container_instances")
    /\ template' = add_parameter(template, web_worker_port_param)
    /\ UNCHANGED stdout

AddMaxScale ==
    /\ Step("stack", "max_container_instances", "desired_container_instances")
    /\ template' = add_parameter(template, max_container_instances_param)
    /\ UNCHANGED stdout

AddDesiredScale ==
    /\ Step("stack", "desired_container_instances", "ECSRegionMap")
    /\ template' = add_parameter(template, desired_container_instances_param)
    /\ UNCHANGED stdout

AddECSRegionMap ==
    /\ Step("stack", "ECSRegionMap", "application_target_group")
    /\ template' = add_mapping(template, "ECSRegionMap", ECSRegionMap)
    /\ UNCHANGED stdout

AddApplicationTargetGroup ==
    /\ Step("stack", "application_target_group", "load_balancer_security_group")
    /\ template' = add_resource(template, application_target_group)
    /\ UNCHANGED stdout

AddLoadBalancerSecurityGroup ==
    /\ Step("stack", "load_balancer_security_group", "application_load_balancer")
    /\ template' = add_resource(template, load_balancer_security_group)
    /\ UNCHANGED stdout

AddApplicationLoadBalancer ==
    /\ Step("stack", "application_load_balancer", "LoadBalancerDNSName")
    /\ template' = add_resource(template, application_load_balancer)
    /\ UNCHANGED stdout

AddLoadBalancerDNSName ==
    /\ Step("stack", "LoadBalancerDNSName", "application_listener")
    /\ template' = add_output(template, load_balancer_dns_name_output)
    /\ UNCHANGED stdout

AddApplicationListener ==
    /\ Step("stack", "application_listener", "cluster")
    /\ template' = add_resource(template, application_listener)
    /\ UNCHANGED stdout

AddCluster ==
    /\ Step("stack", "cluster", "container_instance_role")
    /\ template' = add_resource(template, cluster)
    /\ UNCHANGED stdout

AddContainerInstanceRole ==
    /\ Step("stack", "container_instance_role", "container_instance_profile")
    /\ template' = add_resource(template, container_instance_role)
    /\ UNCHANGED stdout

AddContainerInstanceProfile ==
    /\ Step("stack", "container_instance_profile", "container_security_group")
    /\ template' = add_resource(template, container_instance_profile)
    /\ UNCHANGED stdout

AddContainerSecurityGroup ==
    /\ Step("stack", "container_security_group", "container_instance_configuration")
    /\ template' = add_resource(template, container_security_group)
    /\ UNCHANGED stdout

AddContainerLaunchConfiguration ==
    /\ Step("stack", "container_instance_configuration", "autoscaling_group")
    /\ template' = add_resource(template, container_instance_configuration)
    /\ UNCHANGED stdout

AddAutoScalingGroup ==
    /\ Step("stack", "autoscaling_group", "app_service_role")
    /\ template' = add_resource(template, autoscaling_group)
    /\ UNCHANGED stdout

AddAppServiceRole ==
    /\ Step("stack", "app_service_role", "import_application_siblings")
    /\ template' = add_resource(template, app_service_role)
    /\ UNCHANGED stdout

ImportApplicationSiblings ==
    /\ Step("stack", "import_application_siblings", "application_revision")
    /\ template' = [template EXCEPT
           !.resources =
               @ \o [i \in DOMAIN ImportedByApplication |->
                        ImportedResource(ImportedByApplication[i])],
           !.parameters =
               @ \o [i \in DOMAIN ImportedParameters |->
                        Parameter(ImportedParameters[i].title, "String",
                                  NoDefault)]]
    /\ UNCHANGED stdout

AddWebAppRevision ==
    /\ Step("stack", "application_revision", "secret_key")
    /\ template' = add_parameter(template, application_revision_param)
    /\ UNCHANGED stdout

AddSecretKey ==
    /\ Step("stack", "secret_key", "web_worker_cpu")
    /\ template' = add_parameter(template, secret_key_param)
    /\ UNCHANGED stdout

AddWebWorkerCPU ==
    /\ Step("stack", "web_worker_cpu", "web_worker_memory")
    /\ template' = add_parameter(template, web_worker_cpu_param)
    /\ UNCHANGED stdout

AddWebWorkerMemory ==
    /\ Step("stack", "web_worker_memory", "web_worker_desired_count")
    /\ template' = add_parameter(template, web_worker_memory_param)
    /\ UNCHANGED stdout

AddWebWorkerDesiredCount ==
    /\ Step("stack", "web_worker_desired_count", "deploy_condition")
    /\ template' = add_parameter(template, web_worker_desired_count_param)
    /\ UNCHANGED stdout

AddDeployCondition ==
    /\ Step("stack", "deploy_condition", "web_log_group")
    /\ template' =
           add_condition(template,
           deploy_condition, deploy_condition_expr)
    /\ UNCHANGED stdout

AddWebLogs ==
    /\ Step("stack", "web_log_group", "WebLogsGroup")
    /\ template' = add_resource(template, web_log_group)
    /\ UNCHANGED stdout

AddWebLogsGroup ==
    /\ Step("stack", "WebLogsGroup", "web_task_definition")
    /\ template' = add_output(template, web_logs_group_output)
    /\ UNCHANGED stdout

AddWebTask ==
    /\ Step("stack", "web_task_definition", "application_service_role")
    /\ template' = add_resource(template, web_task_definition)
    /\ UNCHANGED stdout

AddApplicationServiceRole ==
    /\ Step("stack", "application_service_role", "application_service")
    /\ template' = add_resource(template, application_service_role)
    /\ UNCHANGED stdout

AddApplicationService ==
    /\ Step("stack", "application_service", "print")
    /\ template' = add_resource(template, application_service)
    /\ UNCHANGED stdout

StackPrint ==
    /\ Step("stack", "print", "end")
    /\ stdout' = Append(stdout, to_yaml(template))
    /\ UNCHANGED template

MystackTemplate ==
    /\ Step("mystack", "template", "web_task_definition")
    /\ template' = Template
    /\ UNCHANGED stdout

\* a variant whose declaration is not handed the template
MystackWebTaskDetached ==
    /\ Step("mystack", "web_task_definition", "print")
    /\ UNCHANGED <<template, stdout>>

MystackWebTask ==
    /\ Step("mystack", "web_task_definition", "print")
    /\ template' = add_resource(template, mystack_web_task_definition)
    /\ UNCHANGED stdout

MystackPrint ==
    /\ Step("mystack", "print", "end")
    /\ stdout' = Append(stdout, to_yaml(template))
    /\ UNCHANGED template

\* the script has run to its end: the process exits and its objects are gone
ProcessExit ==
    /\ pc = "end"
    /\ pc' = "exit"
    /\ template' = Template
    /\ UNCHANGED <<script, stdout, deployment, created>>

Run ==
    \/ ImportClusterSiblings
    \/ AddContainerInstanceType
    \/ AddWebWorkerPort
    \/ AddMaxScale
    \/ AddDesiredScale
    \/ AddECSRegionMap
    \/ AddApplicationTargetGroup
    \/ AddLoadBalancerSecurityGroup
    \/ AddApplicationLoadBalancer
    \/ AddLoadBalancerDNSName
    \/ AddApplicationListener
    \/ AddCluster
    \/ AddContainerInstanceRole
    \/ AddContainerInstanceProfile
    \/ AddContainerSecurityGroup
    \/ AddContainerLaunchConfiguration
    \/ AddAutoScalingGroup
    \/ AddAppServiceRole
    \/ ImportApplicationSiblings
    \/ AddWebAppRevision
    \/ AddSecretKey
    \/ AddWebWorkerCPU
    \/ AddWebWorkerMemory
    \/ AddWebWorkerDesiredCount
    \/ AddDeployCondition
    \/ AddWebLogs
    \/ AddWebLogsGroup
    \/ AddWebTask
    \/ AddApplicationServiceRole
    \/ AddApplicationService
    \/ StackPrint
    \/ MystackTemplate
    \/ MystackWebTask
    \/ MystackPrint
    \/ ProcessExit

----------------------------------------------------------------------------
(* The declarations of each script in source order, and the document a     *)
(* complete run prints                                                     *)

Parameters(ps) == [i \in DOMAIN ps |-> [kind |-> "parameter", obj |-> ps[i]]]
Resources(rs) == [i \in DOMAIN rs |-> [kind |-> "resource", obj |-> rs[i]]]
Outputs(os) == [i \in DOMAIN os |-> [kind |-> "output", obj |-> os[i]]]

StackDeclarations ==
    Resources([i \in DOMAIN ImportedByCluster |->
                  ImportedResource(ImportedByCluster[i])])
    \o Parameters(<<container_instance_type_param, web_worker_port_param,
                    max_container_instances_param,
                    desired_container_instances_param>>)
    \o <<[kind |-> "mapping",
          obj |-> [title |-> "ECSRegionMap", map |-> ECSRegionMap]]>>
    \o Resources(<<application_target_group, load_balancer_security_group,
                   application_load_balancer>>)
    \o Outputs(<<load_balancer_dns_name_output>>)
    \o Resources(<<application_listener, cluster, container_instance_role,
                   container_instance_profile, container_security_group,
                   container_instance_configuration, autoscaling_group,
                   app_service_role>>)
    \o Resources([i \in DOMAIN ImportedByApplication |->
                     ImportedResource(ImportedByApplication[i])])
    \o Parameters([i \in DOMAIN ImportedParameters |->
                      Parameter(ImportedParameters[i].title, "String",
                                NoDefault)])
    \o Parameters(<<application_revision_param, secret_key_param,
                    web_worker_cpu_param, web_worker_memory_param,
                    web_worker_desired_count_param>>)
    \o <<[kind |-> "condition",
          obj |-> [title |-> deploy_condition,
                   expr |-> deploy_condition_expr]]>>
    \o Resources(<<web_log_group>>)
    \o Outputs(<<web_logs_group_output>>)
    \o Resources(<<web_task_definition, application_service_role,
                   application_service>>)

MystackDeclarations == Resources(<<mystack_web_task_definition>>)

Attach(t, d) ==
    CASE d.kind = "parameter" -> add_parameter(t, d.obj)
      [] d.kind = "resource" -> add_resource(t, d.obj)
      [] d.kind = "output" -> add_output(t, d.obj)
      [] d.kind = "condition" -> add_condition(t, d.obj.title, d.obj.expr)
      [] d.kind = "mapping" -> add_mapping(t, d.obj.title, d.obj.map)

RECURSIVE Built(_)
Built(decls) ==
    IF decls = <<>> THEN Template
    ELSE Attach(Built(SubSeq(decls, 1, Len(decls) - 1)), decls[Len(decls)])

StackDocument == to_yaml(Built(StackDeclarations))
MystackDocument == to_yaml(Built(MystackDeclarations))

\* the document a complete run of the script prints
Printed(s) == IF s = "stack" THEN StackDocument ELSE MystackDocument

----------------------------------------------------------------------------
(* Deployment of the printed document: the values a stack is created with *)

SaEast1 == <<"s", "a", "-", "e", "a", "s", "t", "-", "1">>

\* the mapped regions, in the order of the mapping's source
MappedRegions ==
    <<UsEast1, UsEast2, UsWest1, UsWest2, EuWest1, EuCentral1, ApNortheast1,
      ApSoutheast1, ApSoutheast2>>

\* the regions a stack is created in: mapped ones, and one that is not
AwsRegions ==
    {MappedRegions[i] : i \in (1..MaxDeployRegions) \cap DOMAIN MappedRegions}
        \cup {SaEast1}

AccountIds == {<<"1", "2", "3">>}
RepositoryNames == {<<"a", "p", "p">>}
RevisionAlphabet == {"v", ":"}

Strings(alphabet, maxLen) ==
    UNION {[1..n -> alphabet] : n \in 0..maxLen}

Digit(c) ==
    CASE c = "0" -> 0 [] c = "1" -> 1 [] c = "2" -> 2 [] c = "3" -> 3
      [] c = "4" -> 4 [] c = "5" -> 5 [] c = "6" -> 6 [] c = "7" -> 7
      [] c = "8" -> 8 [] c = "9" -> 9

\* a Number parameter's text, read as a decimal number
RECURSIVE ParseNumber(_)
ParseNumber(cs) ==
    IF cs = <<>> THEN 0
    ELSE 10 * ParseNumber(SubSeq(cs, 1, Len(cs) - 1)) + Digit(cs[Len(cs)])

ParameterValue(p, cs) == IF p.Type = "Number" THEN ParseNumber(cs) ELSE cs

\* the texts a deployment may supply for a parameter
Supplied(p) ==
    CASE p.title = "WebAppRevision" -> Strings(RevisionAlphabet, MaxRevLen)
      [] p.title = "WebWorkerPort" -> {<<"8", "0">>}
      [] p.title \in {"DesiredScale", "MaxScale"} ->
            {<<c>> : c \in {"1", "2", "3", "4", "5", "6", "7", "8", "9"}}
      [] OTHER -> IF p.Default = NoDefault THEN {<<"x">>} ELSE {}

\* the values a parameter can take: a supplied one, or its Default
Candidates(p) ==
    LET scaleOk(cs) ==
            p.title \in {"DesiredScale", "MaxScale"} =>
                ParseNumber(cs) <= MaxSuppliedScale
    IN  {ParameterValue(p, cs) : cs \in {x \in Supplied(p) : scaleOk(x)}}
            \cup {ParameterValue(p, d) : d \in p.Default}

RECURSIVE Assignments(_, _)
Assignments(params, names) ==
    IF names = {} THEN {<<>>}
    ELSE LET n == CHOOSE x \in names : TRUE
         IN  {(n :> v) @@ f :
                 v \in Candidates(params[n]),
                 f \in Assignments(params, names \ {n})}

----------------------------------------------------------------------------
(* Resolution of expressions in a deployment environment *)

RECURSIVE JoinChars(_, _)
JoinChars(delim, parts) ==
    IF parts = <<>> THEN <<>>
    ELSE IF Len(parts) = 1 THEN parts[1]
    ELSE parts[1] \o delim \o JoinChars(delim, Tail(parts))

\* what Ref returns for a resource: the repository's name, else an id token
PhysicalId(env, name) ==
    IF name = repository.title THEN env.repositoryName ELSE <<name>>

RECURSIVE Eval(_, _)
Eval(e, env) ==
    CASE e.op = "Str" -> e.chars
      [] e.op = "Text" -> <<e.s>>
      [] e.op = "Num" -> e.n
      [] e.op = "Bool" -> e.b
      [] e.op = "Ref" ->
            IF e.name \in DOMAIN env.parameters THEN env.parameters[e.name]
            ELSE IF e.name = AWS_REGION.title THEN env.region
            ELSE IF e.name = AWS_ACCOUNT_ID.title THEN env.accountId
            ELSE PhysicalId(env, e.name)
      [] e.op = "GetAtt" -> <<e.name, e.attr>>
      [] e.op = "Join" ->
            JoinChars(e.delim,
                      [i \in DOMAIN e.items |-> Eval(e.items[i], env)])
      [] e.op = "FindInMap" ->
            env.mappings[e.map][Eval(e.key, env)][e.second]
      [] e.op = "Base64" -> <<"base64">> \o Eval(e.arg, env)
      [] e.op = "Not" -> ~Eval(e.arg, env)
      [] e.op = "Equals" -> Eval(e.left, env) = Eval(e.right, env)

\* every FindInMap of the expression has a value
Resolvable(e, env) ==
    \A m \in FindInMaps(e) :
        /\ m.map \in DOMAIN env.mappings
        /\ Eval(m.key, env) \in DOMAIN env.mappings[m.map]
        /\ m.second \in DOMAIN env.mappings[m.map][Eval(m.key, env)]

----------------------------------------------------------------------------------------------------------------------------------------
(* Deployment of the printed document: stack creation *)

\* the template of the stack: the document the script printed
Document == Printed(script)

Env == [parameters |-> deployment.parameters, region |-> deployment.region,
        accountId |-> deployment.accountId,
        repositoryName |-> deployment.repositoryName,
        mappings |-> Document.Mappings]

\* the printed document is read from the script's output; a document that
\* uses an undeclared name is rejected
RejectStack ==
    /\ pc = "exit"
    /\ deployment.status = "NONE"
    /\ stdout # <<>>
    /\ ~ValidDocument(Head(stdout))
    /\ deployment' = [deployment EXCEPT !.status = "REJECTED"]
    /\ stdout' = Tail(stdout)
    /\ UNCHANGED <<script, pc, template, created>>

\* a resource is part of the stack when each of its conditions is true
Selected(r, conditions) == \A c \in r.Condition : conditions[c]

\* the resources to create, each with the resources its creation waits for
DependencyGraph(doc, conditions) ==
    [n \in {m \in DOMAIN doc.Resources :
                Selected(doc.Resources[m], conditions)} |->
        Uses(doc.Resources[n]) \cap DOMAIN doc.Resources]

\* parameter values and the region are bound, the conditions evaluated and
\* the dependency graph computed
CreateStack ==
    /\ pc = "exit"
    /\ deployment.status = "NONE"
    /\ stdout # <<>>
    /\ ValidDocument(Head(stdout))
    /\ \E region \in AwsRegions, account \in AccountIds,
          name \in RepositoryNames,
          params \in Assignments(Head(stdout).Parameters,
                                 DOMAIN Head(stdout).Parameters) :
          LET doc == Head(stdout)
              env == [parameters |-> params, region |-> region,
                      accountId |-> account, repositoryName |-> name,
                      mappings |-> doc.Mappings]
              conditions == [c \in DOMAIN doc.Conditions |->
                                Eval(doc.Conditions[c], env)]
              graph == DependencyGraph(doc, conditions)
          IN  deployment' =
                  [status |-> "CREATE_IN_PROGRESS",
                   parameters |-> params,
                   region |-> region,
                   accountId |-> account,
                   repositoryName |-> name,
                   conditions |-> conditions,
                   graph |-> graph,
                   unresolvable |->
                       {n \in DOMAIN graph :
                           ~Resolvable(doc.Resources[n].Properties,
                                       env)},
                   outputs |->
                       {n \in DOMAIN doc.Outputs :
                           Selected(doc.Outputs[n], conditions)}]
    /\ stdout' = Tail(stdout)
    /\ UNCHANGED <<script, pc, template, created>>

ImportedResources ==
    {n \in DOMAIN deployment.graph : Document.Resources[n].Type = "Imported"}

\* the resources of the sibling modules come up first
CreateImported ==
    /\ deployment.status = "CREATE_IN_PROGRESS"
    /\ created = {}
    /\ ImportedResources # {}
    /\ created' = ImportedResources
    /\ UNCHANGED <<script, pc, template, stdout, deployment>>

CanCreate(n) ==
    /\ n \notin created
    /\ created # {}
    /\ n \notin deployment.unresolvable
    /\ deployment.graph[n] \subseteq created

\* one resource is created once everything it names has been created
Create(n) ==
    /\ deployment.status = "CREATE_IN_PROGRESS"
    /\ CanCreate(n)
    /\ created' = created \cup {n}
    /\ UNCHANGED <<script, pc, template, stdout, deployment>>

\* nothing more can be created: the stack is complete, or it has failed
Settle ==
    /\ deployment.status = "CREATE_IN_PROGRESS"
    /\ created # {}
    /\ \A n \in DOMAIN deployment.graph : ~CanCreate(n)
    /\ deployment' =
           [deployment EXCEPT !.status =
               IF DOMAIN deployment.graph \subseteq created
               THEN "CREATE_COMPLETE" ELSE "CREATE_FAILED"]
    /\ UNCHANGED <<script, pc, template, stdout, created>>

Deploy ==
    \/ RejectStack
    \/ CreateStack
    \/ CreateImported
    \/ \E n \in DOMAIN deployment.graph : Create(n)
    \/ Settle

Next == Run \/ Deploy

Spec == Init /\ [][Next]_vars

----------------------------------------------------------------------------
(* Properties *)

Field(e, k) == e.f[k]
Item(e, i) == e.items[i]

\* a stack is being created, or has been, from the cluster and
\* application-service document
InStack ==
    /\ script = "stack"
    /\ deployment.status \in
           {"CREATE_IN_PROGRESS", "CREATE_COMPLETE", "CREATE_FAILED"}

StackResource(n) == StackDocument.Resources[n]

\* the resources cluster.py and application.py declare
DeclaredResources ==
    {n \in DOMAIN StackDocument.Resources : StackResource(n).Type # "Imported"}

\* C1: every document a script prints uses only names that the same
\* document declares: Ref and GetAtt targets are parameters, resources or
\* pseudo-parameters, Condition attributes are declared conditions, DependsOn
\* entries are declared resources and FindInMap names are declared mappings.
C1_PrintedDocumentDeclaresItsNames ==
    \A i \in DOMAIN stdout : ValidDocument(stdout[i])

\* C2: the stack has the single condition Deploy, which is true exactly when
\* WebAppRevision is not the empty string; WebTask and ApplicationService
\* are part of the stack exactly when Deploy is true, and every other
\* declared resource and every output is part of it for every assignment.
C2_DeployCondition ==
    InStack =>
        /\ DOMAIN StackDocument.Conditions = {"Deploy"}
        /\ DOMAIN deployment.conditions = {"Deploy"}
        /\ deployment.conditions["Deploy"] =
               (deployment.parameters["WebAppRevision"] # <<>>)
        /\ \A n \in {"WebTask", "ApplicationService"} :
               n \in DOMAIN deployment.graph <=>
                   deployment.conditions["Deploy"]
        /\ DeclaredResources \ {"WebTask", "ApplicationService"}
               \subseteq DOMAIN deployment.graph
        /\ deployment.outputs = DOMAIN StackDocument.Outputs
        /\ created \subseteq DOMAIN deployment.graph
        /\ deployment.status = "CREATE_COMPLETE" =>
               created = DOMAIN deployment.graph

C2_Witness ==
    /\ InStack
    /\ deployment.status = "CREATE_COMPLETE"
    /\ deployment.conditions["Deploy"]
    /\ {"WebTask", "ApplicationService"} \subseteq created

\* the resource titles of a script's declarations, in source order
SourceOrder(s) ==
    LET decls == IF s = "stack" THEN StackDeclarations
                 ELSE MystackDeclarations
    IN  SelectSeq([i \in DOMAIN decls |->
                      IF decls[i].kind = "resource"
                      THEN decls[i].obj.title ELSE ""],
                  LAMBDA t : t # "")

AttachedOrder(t) == [i \in DOMAIN t.resources |-> t.resources[i].title]

IsPrefix(a, b) == Len(a) <= Len(b) /\ a = SubSeq(b, 1, Len(a))

C3_RunInvariant ==
    /\ pc \notin {"end", "exit"} =>
          /\ stdout = <<>>
          /\ IsPrefix(AttachedOrder(template), SourceOrder(script))
    /\ pc = "print" => AttachedOrder(template) = SourceOrder(script)
    /\ pc = "end" =>
          /\ AttachedOrder(template) = SourceOrder(script)
          /\ stdout = <<to_yaml(template)>>
          /\ stdout = <<Printed(script)>>
    /\ Len(stdout) <= 1

C3_RunStep ==
    /\ pc # "exit" /\ pc' # "exit" =>
          IsPrefix(template.resources, template'.resources)
    /\ Len(template'.resources) > Len(template.resources) =>
          /\ pc \notin {"print", "end", "exit"}
          /\ stdout = <<>>
    /\ Len(stdout') > Len(stdout) =>
          /\ pc = "print" /\ pc' = "end"
          /\ stdout = <<>>
          /\ template' = template
    /\ pc = "end" => pc' = "exit"
    /\ pc = "exit" => pc' = "exit" /\ template' = template

\* C3: a run is a single pass: the resource declarations attach their
\* resources once each, in source order; an attached resource is never
\* changed or removed while the script runs; and the document is printed
\* exactly once, after the last resource has been attached, after which the
\* run ends.
C3_SinglePassLifecycle == []C3_RunInvariant /\ [][C3_RunStep]_vars

C3_Witness ==
    /\ script = "mystack"
    /\ pc = "end"
    /\ stdout = <<MystackDocument>>
    /\ AttachedOrder(template) = <<"WebTask">>

WebWorkerContainer ==
    Item(Field(StackResource("WebTask").Properties, "ContainerDefinitions"), 1)

\* the Value of the container's environment variable of the given name
EnvironmentValue(container, name) ==
    LET entries == Field(container, "Environment").items
        i == CHOOSE j \in DOMAIN entries :
                 Field(entries[j], "Name") = Text(name)
    IN  Field(entries[i], "Value")

ServiceLoadBalancer ==
    Item(Field(StackResource("ApplicationService").Properties,
               "LoadBalancers"), 1)

ContainerIngress ==
    Field(StackResource("ContainerSecurityGroup").Properties,
          "SecurityGroupIngress").items

ContainerNames ==
    LET defs == Field(StackResource("WebTask").Properties,
                      "ContainerDefinitions").items
    IN  {Field(defs[i], "Name") : i \in DOMAIN defs}

\* C5: for every value of WebWorkerPort, the container port of WebTask's
\* port mapping, the container's PORT variable, the ContainerPort the service
\* registers with the load balancer and the FromPort and ToPort that
\* ContainerSecurityGroup opens to the two load-balancer subnets are all the
\* value of the one WebWorkerPort parameter, and the ContainerName the
\* service registers is the name of a container of WebTask.
C5_OnePortEverywhere ==
    InStack =>
        LET port == deployment.parameters["WebWorkerPort"]
            mapping == Item(Field(WebWorkerContainer, "PortMappings"), 1)
        IN  /\ Eval(Field(mapping, "ContainerPort"), Env) = port
            /\ Len(Field(WebWorkerContainer, "PortMappings").items) = 1
            /\ Eval(EnvironmentValue(WebWorkerContainer, "PORT"), Env) = port
            /\ Eval(Field(ServiceLoadBalancer, "ContainerPort"), Env) = port
            /\ Len(ContainerIngress) = 2
            /\ \A i \in DOMAIN ContainerIngress :
                  /\ Eval(Field(ContainerIngress[i], "FromPort"), Env) = port
                  /\ Eval(Field(ContainerIngress[i], "ToPort"), Env) = port
            /\ {Field(ContainerIngress[i], "CidrIp") :
                    i \in DOMAIN ContainerIngress} =
                   {loadbalancer_a_subnet_cidr, loadbalancer_b_subnet_cidr}
            /\ Field(ServiceLoadBalancer, "ContainerName") = Text("WebWorker")
            /\ Field(ServiceLoadBalancer, "ContainerName") \in ContainerNames

C5_Witness ==
    /\ InStack
    /\ deployment.parameters["WebWorkerPort"] = 80
    /\ {"WebTask", "ApplicationService", "ContainerSecurityGroup"}
           \subseteq created

\* C6: for every account id, region, repository name and WebAppRevision,
\* the Image of the WebWorker container resolves to exactly
\* <account id>.dkr.ecr.<region>.amazonaws.com/<repository>:<revision>, and
\* to the same string as the module-level value image.
C6_ImageReference ==
    InStack =>
        /\ Eval(Field(WebWorkerContainer, "Image"), Env) =
               deployment.accountId
                   \o <<".", "d", "k", "r", ".", "e", "c", "r", ".">>
                   \o deployment.region
                   \o <<".", "a", "m", "a", "z", "o", "n", "a", "w", "s",
                        ".", "c", "o", "m", "/">>
                   \o deployment.repositoryName
                   \o <<":">>
                   \o deployment.parameters["WebAppRevision"]
        /\ Eval(Field(WebWorkerContainer, "Image"), Env) = Eval(image, Env)

C6_Witness ==
    /\ InStack
    /\ "WebTask" \in created
    /\ deployment.parameters["WebAppRevision"] = <<"v">>
    /\ deployment.region = UsEast2

LaunchConfiguration ==
    StackResource(container_instance_configuration_name)

NineRegions ==
    {UsEast1, UsEast2, UsWest1, UsWest2, EuWest1, EuCentral1, ApNortheast1,
     ApSoutheast1, ApSoutheast2}

\* C7: in every deployment region, the ImageId of
\* ContainerLaunchConfiguration is the AMI ECSRegionMap assigns to the
\* region; the lookup is defined exactly for the nine listed regions, each
\* with exactly one AMI, and in any other region it has no value and the
\* launch configuration is never created.
C7_AmiPerRegion ==
    InStack =>
        LET map == StackDocument.Mappings["ECSRegionMap"]
            imageId == Field(LaunchConfiguration.Properties, "ImageId")
        IN  /\ DOMAIN StackDocument.Mappings = {"ECSRegionMap"}
            /\ DOMAIN map = NineRegions
            /\ Cardinality(DOMAIN map) = 9
            /\ \A r \in DOMAIN map : DOMAIN map[r] = {"AMI"}
            /\ Resolvable(imageId, Env) <=> deployment.region \in NineRegions
            /\ deployment.region \in NineRegions =>
                  /\ Eval(imageId, Env) = map[deployment.region].AMI
                  /\ container_instance_configuration_name
                         \notin deployment.unresolvable
            /\ deployment.region \notin NineRegions =>
                  /\ container_instance_configuration_name
                         \in deployment.unresolvable
                  /\ container_instance_configuration_name \notin created
            /\ deployment.region = UsEast1 =>
                  Eval(imageId, Env) = "ami-eca289fb"
            /\ deployment.region = UsEast2 =>
                  Eval(imageId, Env) = "ami-446f3521"
            /\ map[ApSoutheast2].AMI = "ami-5781be34"

C7_Witness ==
    /\ InStack
    /\ deployment.region = UsEast2
    /\ container_instance_configuration_name \in created

\* the text after the final ":" of a string (the whole string if it has none)
RECURSIVE AfterFinalColon(_)
AfterFinalColon(cs) ==
    IF cs = <<>> THEN <<>>
    ELSE IF cs[Len(cs)] = ":" THEN <<>>
    ELSE AfterFinalColon(SubSeq(cs, 1, Len(cs) - 1)) \o <<cs[Len(cs)]>>

\* every declared resource that names WebTask carries WebTask's condition,
\* and some resource does name it
WebTaskUsersCarryItsCondition ==
    /\ \A n \in DOMAIN StackDocument.Resources :
          "WebTask" \in Uses(StackResource(n)) =>
              /\ StackResource(n).Condition = {deploy_condition}
              /\ StackResource(n).Condition = StackResource("WebTask").Condition
    /\ \E n \in DOMAIN StackDocument.Resources :
          "WebTask" \in Uses(StackResource(n))

\* the resources each output names
OutputUses ==
    [o \in DOMAIN StackDocument.Outputs |->
        Refs(StackDocument.Outputs[o].Value)
            \cap DOMAIN StackDocument.Resources]

\* nothing that is part of the stack names a resource that is not, and what
\* names WebTask carries WebTask's condition
ConditionalClosure ==
    /\ \A n \in DOMAIN deployment.graph :
          deployment.graph[n] \subseteq DOMAIN deployment.graph
    /\ \A o \in deployment.outputs :
          OutputUses[o] \subseteq DOMAIN deployment.graph
    /\ WebTaskUsersCarryItsCondition

WebTaskImage == Eval(Field(WebWorkerContainer, "Image"), Env)

\* C8 as claimed: for every value of WebAppRevision, nothing created refers to
\* a resource that is not created, every resource that refers to WebTask
\* carries the Deploy condition, and whenever WebTask is created the text
\* after the final ":" of its image reference is non-empty.
C8_ClosureAndTagAfterFinalColon ==
    InStack =>
        /\ ConditionalClosure
        /\ "WebTask" \in created => AfterFinalColon(WebTaskImage) # <<>>

\* C8, amended: as above, but the non-empty text is the revision that
\* follows the ":" separator the Join inserts: whenever WebTask is created
\* its image reference ends in ":" followed by the non-empty WebAppRevision
\* value (which may itself contain or end in ":").
C8_ClosureAndRevisionAfterSeparator ==
    InStack =>
        /\ ConditionalClosure
        /\ "WebTask" \in created =>
              LET rev == deployment.parameters["WebAppRevision"]
                  img == WebTaskImage
              IN  /\ rev # <<>>
                  /\ Len(img) > Len(rev)
                  /\ SubSeq(img, Len(img) - Len(rev) + 1, Len(img)) = rev
                  /\ img[Len(img) - Len(rev)] = ":"

C8_Witness ==
    /\ InStack
    /\ {"WebTask", "ApplicationService"} \subseteq created
    /\ deployment.parameters["WebAppRevision"] = <<":">>

RECURSIVE Reachable(_, _, _)
Reachable(graph, frontier, seen) ==
    LET next == UNION {graph[m] : m \in frontier} \ seen
    IN  IF next = {} THEN seen ELSE Reachable(graph, next, seen \cup next)

\* the resources a resource depends on, directly or through others
DependsOnClosure(graph, n) == Reachable(graph, graph[n], graph[n])

\* the dependency relation among all declared resources of the document
StackGraph ==
    DependencyGraph(StackDocument,
                    [c \in DOMAIN StackDocument.Conditions |-> TRUE])

StackGraphAcyclic ==
    \A n \in DOMAIN StackGraph : n \notin DependsOnClosure(StackGraph, n)

ServicePrerequisites ==
    {"AutoScalingGroup", "ApplicationListener", "ApplicationLoadBalancer",
     "ApplicationTargetGroup", "Cluster", "WebTask", "ApplicationServiceRole"}

ServicePrerequisitesAreDependencies ==
    ServicePrerequisites \subseteq
        DependsOnClosure(StackGraph, "ApplicationService")

CreationOrder ==
    /\ \A n \in DOMAIN deployment.graph :
          deployment.graph[n] = StackGraph[n]
    /\ \A n \in created : deployment.graph[n] \subseteq created
    /\ "ApplicationService" \in created => ServicePrerequisites \subseteq created
    /\ ServicePrerequisitesAreDependencies
    /\ StackGraphAcyclic

\* creation has not stopped short: something can still be created, or
\* everything that is part of the stack has been
NotStuck ==
    /\ deployment.status # "CREATE_FAILED"
    /\ (deployment.status = "CREATE_IN_PROGRESS" /\ created # {}) =>
          \/ DOMAIN deployment.graph \subseteq created
          \/ \E n \in DOMAIN deployment.graph : CanCreate(n)

\* C9 as claimed: ApplicationService is created only after AutoScalingGroup,
\* ApplicationListener, ApplicationLoadBalancer, ApplicationTargetGroup,
\* Cluster, WebTask and ApplicationServiceRole; the dependency relation is
\* acyclic; and creation never stops before every resource whose condition
\* holds has been created.
C9_OrderedAndAlwaysCompletes == InStack => CreationOrder /\ NotStuck

\* C9, amended: the same, with completion claimed for the regions
\* ECSRegionMap lists.
C9_OrderedAndCompletesInMappedRegions ==
    InStack =>
        /\ CreationOrder
        /\ deployment.region \in DOMAIN ECSRegionMap => NotStuck

C9_Witness ==
    /\ InStack
    /\ deployment.status = "CREATE_COMPLETE"
    /\ "ApplicationService" \in created

AutoScalingGroupProperty(name) ==
    Eval(Field(StackResource(autoscaling_group_name).Properties, name), Env)

\* C10: for every accepted pair of DesiredScale and MaxScale values,
\* AutoScalingGroup has MinSize <= DesiredCapacity <= MaxSize, with MinSize
\* and DesiredCapacity equal to DesiredScale and MaxSize equal to MaxScale.
C10_AutoscalingBounds ==
    InStack =>
        /\ AutoScalingGroupProperty("MinSize") =
               deployment.parameters["DesiredScale"]
        /\ AutoScalingGroupProperty("DesiredCapacity") =
               deployment.parameters["DesiredScale"]
        /\ AutoScalingGroupProperty("MaxSize") =
               deployment.parameters["MaxScale"]
        /\ AutoScalingGroupProperty("MinSize") <=
               AutoScalingGroupProperty("DesiredCapacity")
        /\ AutoScalingGroupProperty("DesiredCapacity") <=
               AutoScalingGroupProperty("MaxSize")

====
